---- MODULE Spec2Model ----
(***************************************************************************)
(* The three notebooks of the repository as one state machine.  A run      *)
(* picks a notebook (nb) and executes its code cells top to bottom, one    *)
(* statement at a time (pc).  Library calls are modelled by what the       *)
(* notebooks rely on: the objects they return, the files they store, the   *)
(* fact that they may raise.                                               *)
(***************************************************************************)
EXTENDS Integers, Sequences, FiniteSets, TLC

\* ---- sizes of the datasets of a run (data, not code) --------------------
TrainSize == 6001
TestSize == 501
NData == 5

\* ---- hyperparameters hard-coded in the notebooks ------------------------
batch_size == 500
n_epochs == 10
LogEvery == 100
ex_number == 5
MaxClusters == 20

Notebooks == {"nn", "svm", "kmeans"}

ModelNames == <<"Linear", "RBF", "Polynomial">>

MNISTFiles == {"MNIST/raw/train", "MNIST/raw/t10k"}

\* ---- Python values -------------------------------------------------------
\* The name i is bound to an int by the training cell and to a row of the
\* output tensor by the evaluation cell.
PyInt(n) == <<"int", n>>

PyTensorRow(k) == <<"tensor", k>>

PyUnbound == <<"unbound", 0>>

IntVal(v) == v[2]

IsInt(v) == v[1] = "int"

\* An array taken from the iris bunch: which field it was sliced from and
\* which rows of the dataset it holds, in order.
Arr(src, rows) == [src |-> src, rows |-> rows]

NoArr == Arr("none", <<>>)

\* the result of a predict call: which model, on which array, and whether
\* the model had been fitted when it was called
Pred(k, a, f) == [model |-> k, on |-> a, fitted |-> f]

NoPred == Pred(0, NoArr, FALSE)

Range(s) == {s[k] : k \in DOMAIN s}

\* ---- torch.utils.data.DataLoader ----------------------------------------
\* a loader that drops the last, incomplete batch
NumBatchesDropLast(n, bs) == n \div bs

\* len(loader) with drop_last=False
NumBatches(n, bs) == (n + bs - 1) \div bs

\* size of the k-th batch (k = 1..NumBatches)
BatchLen(n, bs, k) == IF k * bs <= n THEN bs ELSE n - (k - 1) * bs

\* with shuffle=False the k-th batch holds examples (k-1)*bs+1 .. in order
ExampleAt(bs, k, idx) == (k - 1) * bs + idx + 1

\* ---- class Net ----------------------------------------------------------
Linear(nin, nout) == [nin |-> nin, nout |-> nout]

NetLayers ==
    << Linear(28 * 28, 16), Linear(16, 16), Linear(16, 16), Linear(16, 10) >>

NoNet == [layers |-> <<>>, steps |-> 0]

\* widths of the activations forward() computes, input first, output last
ForwardWidths(layers) ==
    IF layers = <<>> THEN <<>>
    ELSE <<layers[1].nin>> \o [k \in 1..Len(layers) |-> layers[k].nout]

\* the layers of neurons strictly between the input and the output
HiddenWidths(layers) ==
    LET w == ForwardWidths(layers)
    IN  IF Len(w) <= 2 THEN <<>> ELSE SubSeq(w, 2, Len(w) - 1)

\* ---- round(correct/total, 3), in thousandths -----------------------------
\* nearest thousandth, an exact tie going to the even one
Round3(c, t) ==
    LET q == (1000 * c) \div t
        r == (1000 * c) % t
    IN  IF 2 * r < t THEN q
        ELSE IF 2 * r > t THEN q + 1
        ELSE IF q % 2 = 0 THEN q ELSE q + 1

\* ---- sklearn.model_selection.train_test_split ---------------------------
\* ceil(test_size * n_samples) with test_size = 0.2
NTest(n) == (2 * n + 9) \div 10

RECURSIVE Perms(_)
Perms(S) ==
    IF S = {} THEN {<<>>}
    ELSE UNION {{<<x>> \o p : p \in Perms(S \ {x})} : x \in S}

Take(a, idx) == Arr(a.src, [k \in 1..Len(idx) |-> a.rows[idx[k]]])

\* For a permutation perm of the row positions: the first n_test positions
\* index the test part, the rest the train part; the result lists, for each
\* array passed, its train part and then its test part.
TrainTestSplit(a, b, perm) ==
    LET n    == Len(a.rows)
        nt   == NTest(n)
        test == SubSeq(perm, 1, nt)
        trn  == SubSeq(perm, nt + 1, n)
    IN  << Take(a, trn), Take(a, test), Take(b, trn), Take(b, test) >>

VARIABLES nb, pc, err, disk, written, printed, plots,
          train, test, trainset, testset, net, optimizer,
          epoch, b, used, seen, i, losses,
          correct, total, y_true, y_pred, misclassified, tb, idx,
          forwardLog,
          iris, X, y, X_train, X_test, y_train, y_test,
          models, m, predictions, fitLog, predictLog, metricLog,
          clf, N, inertias

ctlVars == <<nb, pc, err>>

fsVars == <<disk, written>>

outVars == <<printed, plots>>

nnVars == <<train, test, trainset, testset, net, optimizer,
            epoch, b, used, seen, i, losses,
            correct, total, y_true, y_pred, misclassified, tb, idx,
            forwardLog>>

irisVars == <<iris, X, y, X_train, X_test, y_train, y_test,
              models, m, predictions, fitLog, predictLog, metricLog,
              clf, N, inertias>>

progVars == <<outVars, nnVars, irisVars>>

vars == <<ctlVars, fsVars, progVars>>

\* the KMeans cells with the final plot placed before the final fit
ProgPlotFirst(n) ==
    CASE n = "nn" ->
           << "imports", "load_train", "load_test", "examples", "loaders",
              "net", "optim", "train_init", "epoch_head", "curve",
              "eval_init", "eval_head", "accuracy", "cm", "misclassified",
              "done" >>
      [] n = "svm" ->
           << "imports", "load", "shape", "features", "scatter", "models",
              "split", "fit_head", "cm_setup", "cm_head", "cm_show",
              "gen", "bd_head", "bd_show", "done" >>
      [] n = "kmeans" ->
           << "imports", "load", "shape", "features", "scatter", "split",
              "elbow_init", "elbow_head", "elbow_plot", "final_new",
              "boundary", "final_fit", "done" >>

\* ---- the cells of each notebook, top to bottom --------------------------
\* One name per statement; a loop is named by its head, and the statement
\* listed after a head is the one that follows the loop.
Prog(n) ==
    CASE n = "nn" ->
           << "imports", "load_train", "load_test", "examples", "loaders",
              "net", "optim", "train_init", "epoch_head", "curve",
              "eval_init", "eval_head", "accuracy", "cm", "misclassified",
              "done" >>
      [] n = "svm" ->
           << "imports", "load", "shape", "features", "scatter", "models",
              "split", "fit_head", "cm_setup", "cm_head", "cm_show",
              "gen", "bd_head", "bd_show", "done" >>
      [] n = "kmeans" ->
           << "imports", "load", "shape", "features", "scatter", "split",
              "elbow_init", "elbow_head", "elbow_plot", "final_new",
              "final_fit", "boundary", "done" >>

\* the statement that runs after statement s has completed
After(n, s) ==
    LET p == Prog(n)
        k == CHOOSE j \in 1..Len(p) : p[j] = s
    IN  p[k + 1]

\* statements that call no library code and so cannot raise
NoCall ==
    { "train_init", "epoch_head", "eval_init", "eval_item", "elbow_init",
      "elbow_head", "fit_head", "cm_head", "gen", "done", "halted" }

\* a handler that runs the failed statement again
OnErrorRetry(n, s) == s

\* No cell has a try/except: an exception ends the run of the cell, and the
\* runtime stops there.
OnError(n, s) == "halted"

\* a learning-curve cell that also saves its figure
WritesSavefig(n, s, d) ==
    IF n = "nn" /\ s \in {"load_train", "load_test"} THEN MNISTFiles \ d
    ELSE IF n = "nn" /\ s = "curve" THEN {"losses.png"} \ d
    ELSE {}

\* files a statement stores when it completes, given what is on disk:
\* datasets.MNIST('', download=True) fetches the dataset unless it is there.
Writes(n, s, d) ==
    IF n = "nn" /\ s \in {"load_train", "load_test"} THEN MNISTFiles \ d
    ELSE {}

\* the file-system effect of completing the current statement
Store ==
    /\ written' = written \cup Writes(nb, pc, disk)
    /\ disk' = disk \cup Writes(nb, pc, disk)

\* completing the current statement moves to the one after it
Goto(s) == pc' = s /\ UNCHANGED <<nb, err>> /\ Store

Init ==
    /\ nb \in Notebooks
    /\ pc = "imports"
    /\ err = "none"
    /\ disk \in {{}, MNISTFiles}
    /\ written = {}
    /\ printed = <<>>
    /\ plots = <<>>
    /\ train = 0 /\ test = 0
    /\ trainset = 0 /\ testset = 0
    /\ net = NoNet
    /\ optimizer = FALSE
    /\ epoch = -1 /\ b = 0
    /\ used = <<>>
    /\ seen = 0
    /\ i = PyUnbound
    /\ losses = 0
    /\ correct = 0 /\ total = 0
    /\ y_true = <<>> /\ y_pred = 0 /\ misclassified = 0
    /\ tb = 0 /\ idx = 0
    /\ forwardLog = {}
    /\ iris = 0
    /\ X = NoArr /\ y = NoArr
    /\ X_train = NoArr /\ X_test = NoArr
    /\ y_train = NoArr /\ y_test = NoArr
    /\ models = <<>>
    /\ m = 0
    /\ predictions = NoPred
    /\ fitLog = {}
    /\ predictLog = {}
    /\ metricLog = {}
    /\ clf = [n_clusters |-> 0, fitted |-> FALSE]
    /\ N = 0
    /\ inertias = <<>>

\* ---- cells common to the notebooks --------------------------------------
Imports ==
    /\ pc = "imports"
    /\ Goto(After(nb, pc))
    /\ UNCHANGED progVars

\* ---- the neural-network notebook ----------------------------------------
\* train = datasets.MNIST('', train=True, download=True, ...)
LoadTrain ==
    /\ nb = "nn" /\ pc = "load_train"
    /\ train' = TrainSize
    /\ Goto(After(nb, pc))
    /\ UNCHANGED <<outVars, irisVars, test, trainset, testset, net, optimizer,
                   epoch, b, used, seen, i, losses, correct, total, y_true,
                   y_pred, misclassified, tb, idx, forwardLog>>

\* test = datasets.MNIST('', train=False, download=True, ...)
LoadTest ==
    /\ nb = "nn" /\ pc = "load_test"
    /\ test' = TestSize
    /\ Goto(After(nb, pc))
    /\ UNCHANGED <<outVars, irisVars, train, trainset, testset, net, optimizer,
                   epoch, b, used, seen, i, losses, correct, total, y_true,
                   y_pred, misclassified, tb, idx, forwardLog>>

\* plot four training images
Examples ==
    /\ nb = "nn" /\ pc = "examples"
    /\ plots' = Append(plots, <<"examples", "train", train > 0>>)
    /\ Goto(After(nb, pc))
    /\ UNCHANGED <<printed, nnVars, irisVars>>

\* trainset = DataLoader(train, batch_size, shuffle=True)
\* testset  = DataLoader(test, batch_size, shuffle=False)
Loaders ==
    /\ nb = "nn" /\ pc = "loaders"
    /\ trainset' = NumBatches(train, batch_size)
    /\ testset' = NumBatches(test, batch_size)
    /\ Goto(After(nb, pc))
    /\ UNCHANGED <<outVars, irisVars, train, test, net, optimizer,
                   epoch, b, used, seen, i, losses, correct, total, y_true,
                   y_pred, misclassified, tb, idx, forwardLog>>

\* net = Net(); print(net)
DefineNet ==
    /\ nb = "nn" /\ pc = "net"
    /\ net' = [layers |-> NetLayers, steps |-> 0]
    /\ printed' = Append(printed, <<"net", Len(NetLayers), 0>>)
    /\ Goto(After(nb, pc))
    /\ UNCHANGED <<plots, irisVars, train, test, trainset, testset, optimizer,
                   epoch, b, used, seen, i, losses, correct, total, y_true,
                   y_pred, misclassified, tb, idx, forwardLog>>

\* loss_function = nn.CrossEntropyLoss(); optimizer = optim.Adam(...)
Optim ==
    /\ nb = "nn" /\ pc = "optim"
    /\ optimizer' = (net # NoNet)
    /\ Goto(After(nb, pc))
    /\ UNCHANGED <<outVars, irisVars, train, test, trainset, testset, net,
                   epoch, b, used, seen, i, losses, correct, total, y_true,
                   y_pred, misclassified, tb, idx, forwardLog>>

\* n_epochs = 10; losses = []; i = 0
TrainInit ==
    /\ nb = "nn" /\ pc = "train_init"
    /\ losses' = 0
    /\ i' = PyInt(0)
    /\ Goto(After(nb, pc))
    /\ UNCHANGED <<outVars, irisVars, train, test, trainset, testset, net,
                   optimizer, epoch, b, used, seen, correct, total, y_true,
                   y_pred, misclassified, tb, idx, forwardLog>>

\* for epoch in range(n_epochs): the next epoch starts a fresh pass over the
\* loader, or the loop ends
EpochHead ==
    /\ nb = "nn" /\ pc = "epoch_head"
    /\ IF epoch + 1 < n_epochs
       THEN /\ epoch' = epoch + 1
            /\ b' = 0
            /\ used' = [k \in 1..trainset |-> 0]
            /\ seen' = 0
            /\ Goto("batch_head")
       ELSE /\ Goto(After(nb, pc))
            /\ UNCHANGED <<epoch, b, used, seen>>
    /\ UNCHANGED <<outVars, irisVars, train, test, trainset, testset, net,
                   optimizer, i, losses, correct, total, y_true,
                   y_pred, misclassified, tb, idx, forwardLog>>

\* for data in trainset: the loader yields its next batch, or is exhausted
BatchHead ==
    /\ nb = "nn" /\ pc = "batch_head"
    /\ IF b < trainset
       THEN /\ b' = b + 1
            /\ Goto("train_body")
       ELSE /\ b' = b
            /\ Goto("epoch_head")
    /\ UNCHANGED <<outVars, irisVars, train, test, trainset, testset, net,
                   optimizer, epoch, used, seen, i, losses, correct, total,
                   y_true, y_pred, misclassified, tb, idx, forwardLog>>

\* what the body prints after optimizer step number n
StepReport(ep, n) ==
    IF n % LogEvery = 0 THEN << <<"train_loss", ep, n>> >> ELSE <<>>

\* the body of the training loop: zero_grad, forward, loss, backward,
\* optimizer.step(), i += 1, and the report every 100 steps
TrainBody ==
    /\ nb = "nn" /\ pc = "train_body"
    /\ used' = [used EXCEPT ![b] = @ + 1]
    /\ seen' = seen + BatchLen(train, batch_size, b)
    /\ net' = [net EXCEPT !.steps = @ + 1]
    /\ i' = PyInt(IntVal(i) + 1)
    /\ printed' = printed \o StepReport(epoch, IntVal(i'))
    /\ losses' = losses + Len(StepReport(epoch, IntVal(i')))
    /\ Goto("batch_head")
    /\ UNCHANGED <<plots, irisVars, train, test, trainset, testset,
                   optimizer, epoch, b, correct, total, y_true, y_pred,
                   misclassified, tb, idx, forwardLog>>

\* plt.plot(range(len(losses)), losses)
Curve ==
    /\ nb = "nn" /\ pc = "curve"
    /\ plots' = Append(plots, <<"curve", "losses", net.steps > 0>>)
    /\ Goto(After(nb, pc))
    /\ UNCHANGED <<printed, nnVars, irisVars>>

\* correct = 0; total = 0; y_true = []; y_pred = []; misclassified = []
EvalInit ==
    /\ nb = "nn" /\ pc = "eval_init"
    /\ correct' = 0 /\ total' = 0
    /\ y_true' = <<>> /\ y_pred' = 0 /\ misclassified' = 0
    /\ Goto(After(nb, pc))
    /\ UNCHANGED <<outVars, irisVars, train, test, trainset, testset, net,
                   optimizer, epoch, b, used, seen, i, losses, tb, idx,
                   forwardLog>>

\* for data in testset: X, y = data; output = net(X.view(-1,784))
EvalHead ==
    /\ nb = "nn" /\ pc = "eval_head"
    /\ IF tb < testset
       THEN /\ tb' = tb + 1
            /\ idx' = 0
            /\ forwardLog' = forwardLog \cup {<<"test", net.steps>>}
            /\ Goto("eval_item")
       ELSE /\ Goto(After(nb, pc))
            /\ UNCHANGED <<tb, idx, forwardLog>>
    /\ UNCHANGED <<outVars, irisVars, train, test, trainset, testset, net,
                   optimizer, epoch, b, used, seen, i, losses, correct, total,
                   y_true, y_pred, misclassified>>

\* a tally that counts an example only when it is misclassified
TallyWrongOnly(ok) ==
    [correct |-> IF ok THEN 1 ELSE 0,
     misclassified |-> IF ok THEN 0 ELSE 1,
     total |-> IF ok THEN 0 ELSE 1]

\* what one pass of the inner loop adds to (correct, misclassified, total)
\* when the prediction is right (ok) or wrong
Tally(ok) ==
    [correct |-> IF ok THEN 1 ELSE 0,
     misclassified |-> IF ok THEN 0 ELSE 1,
     total |-> 1]

\* for idx, i, image in zip(range(len(output)), output, X): one test example
EvalItem ==
    /\ nb = "nn" /\ pc = "eval_item"
    /\ IF idx < BatchLen(test, batch_size, tb)
       THEN \E ok \in BOOLEAN :
            /\ i' = PyTensorRow(idx)
            /\ y_true' = Append(y_true, ExampleAt(batch_size, tb, idx))
            /\ y_pred' = y_pred + 1
            /\ correct' = correct + Tally(ok).correct
            /\ misclassified' = misclassified + Tally(ok).misclassified
            /\ total' = total + Tally(ok).total
            /\ idx' = idx + 1
            /\ Goto("eval_item")
       ELSE /\ Goto("eval_head")
            /\ UNCHANGED <<i, y_true, y_pred, correct, misclassified, total,
                           idx>>
    /\ UNCHANGED <<outVars, irisVars, train, test, trainset, testset, net,
                   optimizer, epoch, b, used, seen, losses, tb, forwardLog>>

\* print("Accuracy: ", round(correct/total, 3))
Accuracy ==
    /\ nb = "nn" /\ pc = "accuracy"
    /\ total > 0
    /\ printed' = Append(printed, <<"accuracy", Round3(correct, total), total>>)
    /\ Goto(After(nb, pc))
    /\ UNCHANGED <<plots, nnVars, irisVars>>

\* cm = confusion_matrix(y_true, y_pred); cm_display.plot(); plt.show()
NNConfusion ==
    /\ nb = "nn" /\ pc = "cm"
    /\ Len(y_true) = y_pred
    /\ plots' = Append(plots, <<"cm", "test", net.steps > 0>>)
    /\ Goto(After(nb, pc))
    /\ UNCHANGED <<printed, nnVars, irisVars>>

\* ax.imshow(misclassified[ex_number]['image']...); two prints
Misclassified ==
    /\ nb = "nn" /\ pc = "misclassified"
    /\ misclassified > ex_number
    /\ plots' = Append(plots, <<"misclassified", "test", net.steps > 0>>)
    /\ printed' = printed \o << <<"true_label", ex_number, 0>>,
                                <<"predicted_label", ex_number, 0>> >>
    /\ Goto(After(nb, pc))
    /\ UNCHANGED <<nnVars, irisVars>>

\* ---- the iris notebooks (SVM and KMeans) --------------------------------
\* iris = datasets.load_iris()
LoadIris ==
    /\ nb \in {"svm", "kmeans"} /\ pc = "load"
    /\ iris' = NData
    /\ Goto(After(nb, pc))
    /\ UNCHANGED <<outVars, nnVars, X, y, X_train, X_test, y_train, y_test,
                   models, m, predictions, fitLog, predictLog, metricLog,
                   clf, N, inertias>>

\* the three prints of the shape cell
Shape ==
    /\ nb \in {"svm", "kmeans"} /\ pc = "shape"
    /\ printed' = printed \o << <<"datapoints", iris, 0>>,
                                <<"features", iris, 0>>,
                                <<"targets", iris, 0>> >>
    /\ Goto(After(nb, pc))
    /\ UNCHANGED <<plots, nnVars, irisVars>>

\* X = iris.data[:, :2]; y = iris.target
Features ==
    /\ nb \in {"svm", "kmeans"} /\ pc = "features"
    /\ X' = Arr("data", [k \in 1..iris |-> k])
    /\ y' = Arr("target", [k \in 1..iris |-> k])
    /\ Goto(After(nb, pc))
    /\ UNCHANGED <<outVars, nnVars, iris, X_train, X_test, y_train, y_test,
                   models, m, predictions, fitLog, predictLog, metricLog,
                   clf, N, inertias>>

\* ax.scatter(X0, X1, c=y, ...)
Scatter ==
    /\ nb \in {"svm", "kmeans"} /\ pc = "scatter"
    /\ plots' = Append(plots, <<"scatter", "data", FALSE>>)
    /\ Goto(After(nb, pc))
    /\ UNCHANGED <<printed, nnVars, irisVars>>

\* models = {'Linear': svm.SVC(...), 'RBF': ..., 'Polynomial': ...}
Models ==
    /\ nb = "svm" /\ pc = "models"
    /\ models' = [k \in 1..Len(ModelNames) |->
                    [kernel |-> ModelNames[k], fitted |-> FALSE]]
    /\ Goto(After(nb, pc))
    /\ UNCHANGED <<outVars, nnVars, iris, X, y, X_train, X_test, y_train,
                   y_test, m, predictions, fitLog, predictLog, metricLog,
                   clf, N, inertias>>

\* the four results unpacked as X_train, y_train, X_test, y_test
SplitAssignSwapped(r) ==
    [X_train |-> r[1], y_train |-> r[2], X_test |-> r[3], y_test |-> r[4]]

\* X_train, X_test, y_train, y_test = <the four arrays returned>
SplitAssign(r) ==
    [X_train |-> r[1], X_test |-> r[2], y_train |-> r[3], y_test |-> r[4]]

\* ... = train_test_split(X, y, test_size=0.2, shuffle=True)
Split ==
    /\ nb \in {"svm", "kmeans"} /\ pc = "split"
    /\ \E perm \in Perms(1..Len(X.rows)) :
         LET a == SplitAssign(TrainTestSplit(X, y, perm))
         IN  /\ X_train' = a.X_train
             /\ X_test' = a.X_test
             /\ y_train' = a.y_train
             /\ y_test' = a.y_test
    /\ Goto(After(nb, pc))
    /\ UNCHANGED <<outVars, nnVars, iris, X, y, models, m, predictions,
                   fitLog, predictLog, metricLog, clf, N, inertias>>

\* ---- the SVM notebook ----------------------------------------------------
\* for m in models:
FitHead ==
    /\ nb = "svm" /\ pc = "fit_head"
    /\ IF m < Len(models)
       THEN m' = m + 1 /\ Goto("fit")
       ELSE m' = 0 /\ Goto(After(nb, pc))
    /\ UNCHANGED <<outVars, nnVars, iris, X, y, X_train, X_test, y_train,
                   y_test, models, predictions, fitLog, predictLog,
                   metricLog, clf, N, inertias>>

\* fitting on the whole dataset
FitArgsAll == <<X, y>>

\* the arguments every fit call of the SVM notebook is given
FitArgs == <<X_train, y_train>>

\* the array every predict call for a metric is given
PredictArg == X_test

\* models[m].fit(X_train, y_train)
Fit ==
    /\ nb = "svm" /\ pc = "fit"
    /\ models' = [models EXCEPT ![m].fitted = TRUE]
    /\ fitLog' = fitLog \cup {<<m, FitArgs[1], FitArgs[2]>>}
    /\ Goto("predict")
    /\ UNCHANGED <<outVars, nnVars, iris, X, y, X_train, X_test, y_train,
                   y_test, m, predictions, predictLog, metricLog, clf, N,
                   inertias>>

\* predictions = models[m].predict(X_test)
Predict ==
    /\ nb = "svm" /\ pc = "predict"
    /\ predictions' = Pred(m, PredictArg, models[m].fitted)
    /\ predictLog' = predictLog \cup {<<m, PredictArg, models[m].fitted>>}
    /\ Goto("score")
    /\ UNCHANGED <<outVars, nnVars, iris, X, y, X_train, X_test, y_train,
                   y_test, models, m, fitLog, metricLog, clf, N, inertias>>

\* print(..., accuracy_score(y_test, predictions))
Score ==
    /\ nb = "svm" /\ pc = "score"
    /\ metricLog' = metricLog \cup {<<"accuracy", y_test, predictions>>}
    /\ printed' = Append(printed, <<"accuracy", m, 0>>)
    /\ Goto("fit_head")
    /\ UNCHANGED <<plots, nnVars, iris, X, y, X_train, X_test, y_train,
                   y_test, models, m, predictions, fitLog, predictLog, clf, N,
                   inertias>>

\* fig, sub = plt.subplots(1, 3, ...); titles = (...)
CmSetup ==
    /\ nb = "svm" /\ pc = "cm_setup"
    /\ Goto(After(nb, pc))
    /\ UNCHANGED progVars

\* for clf, title, ax in zip(models, titles, sub.flatten()):
CmHead ==
    /\ nb = "svm" /\ pc = "cm_head"
    /\ IF m < Len(models)
       THEN m' = m + 1 /\ Goto("cm")
       ELSE m' = 0 /\ Goto(After(nb, pc))
    /\ UNCHANGED <<outVars, nnVars, iris, X, y, X_train, X_test, y_train,
                   y_test, models, predictions, fitLog, predictLog,
                   metricLog, clf, N, inertias>>

\* cm = confusion_matrix(y_test, models[clf].predict(X_test)); display it
Confusion ==
    /\ nb = "svm" /\ pc = "cm"
    /\ predictLog' = predictLog \cup {<<m, PredictArg, models[m].fitted>>}
    /\ metricLog' = metricLog \cup
                      {<<"cm", y_test, Pred(m, PredictArg, models[m].fitted)>>}
    /\ plots' = Append(plots, <<"cm", models[m].kernel, models[m].fitted>>)
    /\ Goto("cm_head")
    /\ UNCHANGED <<printed, nnVars, iris, X, y, X_train, X_test, y_train,
                   y_test, models, m, predictions, fitLog, clf, N, inertias>>

\* plt.show()
CmShow ==
    /\ nb = "svm" /\ pc = "cm_show"
    /\ Goto(After(nb, pc))
    /\ UNCHANGED progVars

\* models_fitted = (clf.fit(X_train, y_train) for clf in models.values());
\* titles; subplots; X0, X1: the generator runs no fit yet
Gen ==
    /\ nb = "svm" /\ pc = "gen"
    /\ Goto(After(nb, pc))
    /\ UNCHANGED progVars

\* for clf, title, ax in zip(models_fitted, ...): taking the next item of
\* the generator runs clf.fit(X_train, y_train) on the next model
BdHead ==
    /\ nb = "svm" /\ pc = "bd_head"
    /\ IF m < Len(models)
       THEN /\ m' = m + 1
            /\ models' = [models EXCEPT ![m + 1].fitted = TRUE]
            /\ fitLog' = fitLog \cup {<<m + 1, FitArgs[1], FitArgs[2]>>}
            /\ Goto("bd")
       ELSE /\ m' = 0
            /\ Goto(After(nb, pc))
            /\ UNCHANGED <<models, fitLog>>
    /\ UNCHANGED <<outVars, nnVars, iris, X, y, X_train, X_test, y_train,
                   y_test, predictions, predictLog, metricLog, clf, N,
                   inertias>>

\* DecisionBoundaryDisplay.from_estimator(clf, X, response_method="predict")
\* predicts on a grid spanning X; then the scatter of the data
Boundary ==
    /\ nb = "svm" /\ pc = "bd"
    /\ predictLog' = predictLog \cup {<<m, Arr("grid", X.rows), models[m].fitted>>}
    /\ plots' = Append(plots, <<"boundary", models[m].kernel, models[m].fitted>>)
    /\ Goto("bd_head")
    /\ UNCHANGED <<printed, nnVars, iris, X, y, X_train, X_test, y_train,
                   y_test, models, m, predictions, fitLog, metricLog, clf, N,
                   inertias>>

\* plt.show()
BdShow ==
    /\ nb = "svm" /\ pc = "bd_show"
    /\ Goto(After(nb, pc))
    /\ UNCHANGED progVars

\* ---- the KMeans notebook -------------------------------------------------
\* N_clusters = range(1,21); inertias = []
ElbowInit ==
    /\ nb = "kmeans" /\ pc = "elbow_init"
    /\ inertias' = <<>>
    /\ Goto(After(nb, pc))
    /\ UNCHANGED <<outVars, nnVars, iris, X, y, X_train, X_test, y_train,
                   y_test, models, m, predictions, fitLog, predictLog,
                   metricLog, clf, N>>

\* for N in N_clusters:
ElbowHead ==
    /\ nb = "kmeans" /\ pc = "elbow_head"
    /\ IF N < MaxClusters
       THEN N' = N + 1 /\ Goto("km_new")
       ELSE N' = N /\ Goto(After(nb, pc))
    /\ UNCHANGED <<outVars, nnVars, iris, X, y, X_train, X_test, y_train,
                   y_test, models, m, predictions, fitLog, predictLog,
                   metricLog, clf, inertias>>

\* clf = KMeans(n_clusters=N)
KmNew ==
    /\ nb = "kmeans" /\ pc = "km_new"
    /\ clf' = [n_clusters |-> N, fitted |-> FALSE]
    /\ Goto("km_fit")
    /\ UNCHANGED <<outVars, nnVars, iris, X, y, X_train, X_test, y_train,
                   y_test, models, m, predictions, fitLog, predictLog,
                   metricLog, N, inertias>>

\* clf.fit(X_train)
KmFit ==
    /\ nb = "kmeans" /\ pc \in {"km_fit", "final_fit"}
    /\ clf' = [clf EXCEPT !.fitted = TRUE]
    /\ fitLog' = fitLog \cup {<<clf.n_clusters, X_train, NoArr>>}
    /\ Goto(IF pc = "km_fit" THEN "km_inertia" ELSE After(nb, pc))
    /\ UNCHANGED <<outVars, nnVars, iris, X, y, X_train, X_test, y_train,
                   y_test, models, m, predictions, predictLog, metricLog, N,
                   inertias>>

\* inertias.append(clf.inertia_): the attribute exists once the model is fitted
KmInertia ==
    /\ nb = "kmeans" /\ pc = "km_inertia"
    /\ clf.fitted
    /\ inertias' = Append(inertias, clf.n_clusters)
    /\ Goto("elbow_head")
    /\ UNCHANGED <<outVars, nnVars, iris, X, y, X_train, X_test, y_train,
                   y_test, models, m, predictions, fitLog, predictLog,
                   metricLog, clf, N>>

\* plt.plot(N_clusters, inertias)
ElbowPlot ==
    /\ nb = "kmeans" /\ pc = "elbow_plot"
    /\ Len(inertias) = MaxClusters
    /\ plots' = Append(plots, <<"elbow", "inertias", clf.fitted>>)
    /\ Goto(After(nb, pc))
    /\ UNCHANGED <<printed, nnVars, irisVars>>

\* clf = KMeans(n_clusters=3)
FinalNew ==
    /\ nb = "kmeans" /\ pc = "final_new"
    /\ clf' = [n_clusters |-> 3, fitted |-> FALSE]
    /\ Goto(After(nb, pc))
    /\ UNCHANGED <<outVars, nnVars, iris, X, y, X_train, X_test, y_train,
                   y_test, models, m, predictions, fitLog, predictLog,
                   metricLog, N, inertias>>

\* DecisionBoundaryDisplay.from_estimator(clf, X_test, ...); scatter; legend
KmBoundary ==
    /\ nb = "kmeans" /\ pc = "boundary"
    /\ predictLog' = predictLog \cup
                       {<<clf.n_clusters, Arr("grid", X_test.rows), clf.fitted>>}
    /\ plots' = Append(plots, <<"boundary", "kmeans", clf.fitted>>)
    /\ Goto(After(nb, pc))
    /\ UNCHANGED <<printed, nnVars, iris, X, y, X_train, X_test, y_train,
                   y_test, models, m, predictions, fitLog, metricLog, clf, N,
                   inertias>>

\* ---- exceptions ----------------------------------------------------------
\* A library call of the current statement raises.  Nothing the statement
\* was about to assign is assigned; a download that fails may have stored
\* some of its files.
Raise ==
    /\ err = "none"
    /\ pc \notin NoCall
    /\ err' = pc
    /\ pc' = OnError(nb, pc)
    /\ nb' = nb
    /\ \E w \in SUBSET Writes(nb, pc, disk) :
         /\ written' = written \cup w
         /\ disk' = disk \cup w
    /\ UNCHANGED progVars

Next ==
    \/ Imports \/ LoadTrain \/ LoadTest \/ Examples \/ Loaders \/ DefineNet
    \/ Optim \/ TrainInit \/ EpochHead \/ BatchHead \/ TrainBody \/ Curve
    \/ EvalInit \/ EvalHead \/ EvalItem \/ Accuracy \/ NNConfusion
    \/ Misclassified
    \/ LoadIris \/ Shape \/ Features \/ Scatter \/ Models \/ Split
    \/ FitHead \/ Fit \/ Predict \/ Score \/ CmSetup \/ CmHead \/ Confusion
    \/ CmShow \/ Gen \/ BdHead \/ Boundary \/ BdShow
    \/ ElbowInit \/ ElbowHead \/ KmNew \/ KmFit \/ KmInertia \/ ElbowPlot
    \/ FinalNew \/ KmBoundary
    \/ Raise

Spec == Init /\ [][Next]_vars

\* ==========================================================================
\* Properties
\* ==========================================================================
HasLine(kind, a, c) == \E k \in DOMAIN printed : printed[k] = <<kind, a, c>>

StepsPlanned == n_epochs * trainset

AfterTraining == {"curve", "eval_init", "eval_head", "eval_item", "accuracy",
                  "cm", "misclassified", "done"}

AfterEvaluation == {"accuracy", "cm", "misclassified", "done"}

\* C1: every 100 optimizer steps the network is evaluated on the testing
\* data, and the loss on training and the loss on testing are both printed
\* for that step.
C1_TrainAndTestLossEvery100 ==
    (nb = "nn" /\ pc = "batch_head" /\ IsInt(i) /\ IntVal(i) > 0
        /\ IntVal(i) % LogEvery = 0)
    => /\ HasLine("train_loss", epoch, IntVal(i))
       /\ HasLine("test_loss", epoch, IntVal(i))
       /\ <<"test", net.steps>> \in forwardLog

\* C2: the training loop passes through the whole training set n_epochs
\* times: at the end of every epoch each batch of the loader has been used
\* for exactly one optimizer step and every training example has been seen;
\* when the loop has ended i = n_epochs * (batches per epoch), which is
\* 10 x 120 = 1200 for 60000 examples in batches of 500; and i never
\* decreases while the training cell runs.
C2_EpochEnd ==
    (nb = "nn" /\ pc = "epoch_head" /\ epoch >= 0)
    => /\ \A k \in 1..trainset : used[k] = 1
       /\ seen = train
       /\ i = PyInt((epoch + 1) * trainset)

C2_LoopEnd ==
    (nb = "nn" /\ pc = "curve")
    => /\ epoch = n_epochs - 1
       /\ i = PyInt(n_epochs * NumBatches(train, batch_size))
       /\ net.steps = IntVal(i)
       /\ trainset * batch_size >= train
       /\ (trainset - 1) * batch_size < train
       /\ n_epochs * NumBatches(60000, batch_size) = 1200

C2_Monotone ==
    (nb = "nn" /\ pc \in {"epoch_head", "batch_head", "train_body"})
    => /\ IsInt(i') /\ IsInt(i)
       /\ IntVal(i') >= IntVal(i)

C2_TrainingPasses == [](C2_EpochEnd /\ C2_LoopEnd) /\ [][C2_Monotone]_vars

C2_Witness ==
    /\ nb = "nn" /\ pc = "curve" /\ err = "none"
    /\ trainset > 1
    /\ IntVal(i) = n_epochs * trainset
    /\ train % batch_size # 0

\* C3: Net has exactly two hidden layers of 16 neurons each between its
\* 28*28 = 784-wide input and its 10-wide output.
C3_TwoHiddenLayers ==
    (nb = "nn" /\ net # NoNet)
    => /\ ForwardWidths(net.layers)[1] = 784
       /\ ForwardWidths(net.layers)[Len(ForwardWidths(net.layers))] = 10
       /\ HiddenWidths(net.layers) = <<16, 16>>

\* C4: in the SVM notebook every fit call is given (X_train, y_train), so no
\* test example is passed to fit; every prediction scored for an accuracy or
\* a confusion matrix is made on X_test, against y_test, by a model that was
\* fitted when predict was called; predict is never called on an unfitted
\* model.
C4_FitOnTrainPredictOnTest ==
    nb = "svm"
    => /\ \A f \in fitLog :
            /\ f[2] = X_train /\ f[3] = y_train
            /\ f[2].src = "data" /\ f[3].src = "target"
            /\ Range(f[2].rows) \cap Range(X_test.rows) = {}
            /\ Range(f[3].rows) \cap Range(y_test.rows) = {}
            /\ f[2].rows # <<>>
       /\ \A e \in metricLog :
            /\ e[3].on = X_test /\ e[2] = y_test
            /\ e[3].on.src = "data" /\ e[3].on.rows # <<>>
            /\ e[3].fitted
       /\ \A p \in predictLog : p[3]

C4_Witness ==
    /\ nb = "svm" /\ pc = "done"
    /\ Cardinality(fitLog) = Len(ModelNames)
    /\ Cardinality(metricLog) = 2 * Len(ModelNames)
    /\ \E p \in predictLog : p[2].src = "grid"

\* C5: the shuffled split with test_size=0.2 is a partition of the dataset:
\* train and test are disjoint, together hold every datapoint exactly once,
\* the test part has ceil(0.2 n) datapoints (30 of 150) and the train part
\* the rest (120 of 150), and every feature row stays paired with its own
\* label in (X_train, y_train) and in (X_test, y_test).
C5_SplitIsPartition ==
    (nb \in {"svm", "kmeans"} /\ X_train # NoArr)
    => LET n == Len(X.rows)
           tr == X_train.rows
           te == X_test.rows
       IN  /\ X_train.src = "data" /\ X_test.src = "data"
           /\ y_train.src = "target" /\ y_test.src = "target"
           /\ y_train.rows = tr /\ y_test.rows = te
           /\ Range(tr) \cap Range(te) = {}
           /\ Range(tr) \cup Range(te) = 1..n
           /\ Cardinality(Range(tr)) = Len(tr)
           /\ Cardinality(Range(te)) = Len(te)
           /\ Len(tr) + Len(te) = n
           /\ 5 * Len(te) >= n /\ 5 * (Len(te) - 1) < n
           /\ NTest(150) = 30 /\ 150 - NTest(150) = 120

C5_Witness ==
    /\ nb = "kmeans" /\ pc = "elbow_init"
    /\ Len(X_test.rows) >= 1 /\ Len(X_train.rows) >= 2
    /\ X_train.rows # SubSeq(X.rows, Len(X_test.rows) + 1, Len(X.rows))

\* C6: the accuracy is computed on the testing data only and only after
\* training has finished; the evaluation loop visits every test example
\* exactly once, so at its end total is the size of the test set; the
\* printed accuracy is correct/total rounded to 3 places, between 0 and 1.
C6_AccuracyOnTestAfterTraining ==
    nb = "nn"
    => /\ \A e \in forwardLog : e = <<"test", StepsPlanned>>
       /\ (total > 0 \/ correct > 0) => (net.steps = StepsPlanned /\ pc \in AfterTraining \cup {"halted"})
       /\ pc \in AfterEvaluation
          => /\ total = test
             /\ y_true = [k \in 1..test |-> k]
             /\ y_pred = total
             /\ correct + misclassified = total
             /\ correct >= 0 /\ correct <= total
       /\ \A k \in DOMAIN printed :
            printed[k][1] = "accuracy"
            => LET a == printed[k][2]
                   d == 1000 * correct - a * total
               IN  /\ a >= 0 /\ a <= 1000
                   /\ 2 * d <= total /\ 2 * (-d) <= total
                   /\ printed[k][3] = test

C6_Witness ==
    /\ nb = "nn" /\ pc = "done"
    /\ testset >= 2
    /\ correct > 0 /\ correct < total
    /\ \E k \in DOMAIN printed :
         printed[k][1] = "accuracy" /\ printed[k][2] > 0 /\ printed[k][2] < 1000

\* C7: in every notebook the dataset is loaded before any model is
\* constructed, every model is constructed before it is fitted or trained,
\* and every model is fitted or trained before it is used to predict, to
\* compute a metric or to draw a plot.
ModelPlots == {"cm", "boundary", "curve", "misclassified", "elbow"}

C7_LoadConstructFitUse ==
    /\ net # NoNet => (train > 0 /\ test > 0)
    /\ models # <<>> => (iris > 0 /\ X # NoArr)
    /\ clf.n_clusters > 0 => (iris > 0 /\ X # NoArr)
    /\ net.steps > 0 => (net.layers # <<>> /\ optimizer)
    /\ \A f \in fitLog :
         /\ nb = "svm" => (f[1] \in DOMAIN models /\ models[f[1]].fitted)
         /\ nb = "kmeans" => (f[1] >= 1 /\ f[1] <= MaxClusters)
    /\ clf.fitted => clf.n_clusters > 0
    /\ \A p \in predictLog : p[3]
    /\ \A e \in metricLog : e[3].fitted
    /\ \A e \in forwardLog : e[2] = StepsPlanned /\ e[2] > 0
    /\ \A k \in DOMAIN plots : plots[k][1] \in ModelPlots => plots[k][3]
    /\ Len(inertias) > 0 => (clf.n_clusters > 0 /\ X_train # NoArr)

C7_Witness ==
    /\ nb = "kmeans" /\ pc = "done"
    /\ clf = [n_clusters |-> 3, fitted |-> TRUE]
    /\ Len(inertias) = MaxClusters
    /\ \E p \in predictLog : p[1] = 3

\* C8: no error handling: when a library call of a cell raises, nothing
\* the statement was about to assign is assigned (no fallback value), the
\* run stops at once, the failed statement is not run again and no later
\* statement is executed.
C8_Failing ==
    err' # err
    => /\ err = "none" /\ err' = pc
       /\ pc' = "halted"
       /\ UNCHANGED progVars

C8_Stopped ==
    err # "none" => UNCHANGED vars

C9_NoFileProduced == written = {}

\* C9 as amended: the only files a run stores are the MNIST dataset files,
\* stored by the dataset-load cell of the neural-network notebook when they
\* are not on disk already; once that cell has completed the dataset is on
\* disk; no other statement of any notebook changes the file system.
C9_State ==
    /\ written \subseteq MNISTFiles
    /\ written # {} => nb = "nn"
    /\ (nb = "nn" /\ err = "none" /\ pc \notin {"imports", "load_train"})
         => MNISTFiles \subseteq disk

C9_Step ==
    (written' # written \/ disk' # disk)
    => /\ nb = "nn" /\ pc \in {"load_train", "load_test"}
       /\ disk' \ disk = written' \ written

C9_OnlyDatasetFilesStored == []C9_State /\ [][C9_Step]_vars

C9_Witness ==
    /\ nb = "nn" /\ pc = "done"
    /\ written = MNISTFiles
    /\ Len(plots) >= 3

====
